---- MODULE Spec2Model ----
(***************************************************************************)
(* Graph execution engine of the "API Caller" workflow builder:           *)
(* detectCycles, topologicalSort and executeGraph (utils/execution.ts),   *)
(* driven by Flow.handleRunGraph against the zustand store.               *)
(*                                                                         *)
(* Node ids are uuid strings in the program; here they are the integers   *)
(* 1..n.  They are only ever compared for equality.                       *)
(***************************************************************************)
EXTENDS Integers, Sequences, FiniteSets, TLC

\* ------------------------------------------------------------------ bounds
MaxNodes == 3         \* nodes of a graph given to detectCycles / topologicalSort
MaxEdges == 3         \* edges of such a graph
MaxRunNodes == 3      \* nodes of a project graph that is run
MaxRunEdges == 2      \* edges of such a graph
MaxRunSize == 8       \* twice the nodes plus the edges of such a graph
MaxTemplateKeys == 2  \* keys in the paths of the tokens of a template
MaxOutputs == 1       \* entries of the outputs map given to interpolateVariables
MaxUuids == 3         \* ids the store draws from uuidv4 in one session
MaxRuns == 2          \* invocations of handleRunGraph that exist at one time
MaxReentryNodes == 2  \* nodes of a project graph that is run twice at a time
MaxReentryEdges == 1  \* edges of such a graph

VARIABLES
    graph,          \* store: currentProject.graph structure (node ids, types, edges)
    cyclesResult,   \* result of the last detectCycles(graph) call
    sortResult,     \* result of the last topologicalSort(graph) call
    template,       \* interpolateVariables: its template argument, a symbol sequence
    nodeOutputs,    \* interpolateVariables: its nodeOutputs argument
    interpolated,   \* result of the interpolateVariables(template, nodeOutputs) call
    expression,     \* safeEval: its expression argument
    data,           \* safeEval: its data argument
    evaluated,      \* outcome of the safeEval(expression, data) call
    storeNodes,     \* store: status, output, error of every node of currentProject
    isRunning,      \* store: isRunning
    executionLogs,  \* store: executionLogs
    pc,             \* where the handleRunGraph / executeGraph invocation stands
    runGraph,       \* executeGraph: its graph argument
    executionOrder, \* executeGraph: const executionOrder
    idx,            \* executeGraph: position of the for-loop in executionOrder
    context,        \* executeGraph: the ExecutionContext
    updates,        \* the onNodeUpdate calls of the current run, in call order
    runError,       \* the error executeGraph rejected with, if it did
    response,       \* executeApiNode: const response, once axios has resolved
    transformResult,\* executeTransformNode: const result, once safeEval has returned
    inputData,      \* executeTransformNode / executeOutputNode: const inputData
    cancelRequested,\* caller: it has asked for the run in flight to be aborted
    useCorsProxy,   \* executeApiNode: node.data.useCorsProxy
    finalUrl,       \* executeApiNode: const finalUrl, the url handed to axios
    uuidCount,      \* uuidv4: how many ids the store has drawn
    parked          \* handleRunGraph invocations suspended at an await, besides the one above

interpVars == <<template, nodeOutputs, interpolated>>
evalVars == <<expression, data, evaluated>>
requestVars == <<useCorsProxy, finalUrl>>
sessionVars == <<uuidCount, parked>>
\* what no step of a run touches
pureVars == <<cyclesResult, sortResult, interpVars, evalVars, requestVars, sessionVars>>
storeVars == <<storeNodes, isRunning, executionLogs>>
executorVars == <<response, transformResult, inputData>>
runVars == <<pc, runGraph, executionOrder, idx, context, updates, runError, executorVars>>
vars == <<graph, pureVars, storeVars, runVars, cancelRequested>>

\* ------------------------------------------------------- sequence helpers
Range(s) == {s[i] : i \in DOMAIN s}

\* Array.prototype.indexOf: zero-based, -1 when absent
IndexOf(path, x) ==
    IF \E i \in DOMAIN path : path[i] = x
    THEN (CHOOSE i \in DOMAIN path : path[i] = x /\ \A j \in 1..(i-1) : path[j] # x) - 1
    ELSE -1

\* Array.prototype.slice(start): a negative start counts from the end
Slice(path, start) ==
    LET len  == Len(path)
        from == IF start < 0
                THEN (IF len + start < 0 THEN 0 ELSE len + start)
                ELSE (IF start > len THEN len ELSE start)
    IN  [i \in 1..(len - from) |-> path[from + i]]

\* ------------------------------------------------------------ graph model
NodeTypes == {"api", "transform", "output"}

\* a type string outside the union, as onDrop's unchecked cast or loadProject admits
UnknownType == "unknown"

NodeIds(g) == {g.nodes[i].id : i \in DOMAIN g.nodes}

\* graph.edges.filter(edge => edge.source === nodeId), targets in edge order
RECURSIVE OutgoingFrom(_, _, _)
OutgoingFrom(edges, i, nodeId) ==
    IF i > Len(edges) THEN <<>>
    ELSE IF edges[i].source = nodeId
         THEN <<edges[i].target>> \o OutgoingFrom(edges, i + 1, nodeId)
         ELSE OutgoingFrom(edges, i + 1, nodeId)

outgoingEdges(g, nodeId) == OutgoingFrom(g.edges, 1, nodeId)

\* ------------------------------------------------------------ detectCycles
\* mutant: the recursion-stack test never fires
OnRecursionStackNever(st, nodeId) == FALSE

\* line 11: the node is on the recursion stack
OnRecursionStack(st, nodeId) == nodeId \in st.recursionStack

\* lines 12-13: cycles.push(...path.slice(path.indexOf(nodeId)))
PushCycle(cycles, path, nodeId) == cycles \o Slice(path, IndexOf(path, nodeId))

\* mutant: recursionStack.delete(nodeId) is forgotten
LeaveNodeKeepStack(st, nodeId) == [st EXCEPT !.found = FALSE]

\* lines 31-32: leaving a node whose subtree held no cycle
LeaveNode(st, nodeId) ==
    [st EXCEPT !.recursionStack = @ \ {nodeId}, !.found = FALSE]

RECURSIVE dfs(_, _, _, _), dfsEdges(_, _, _, _, _)
\* st = [visited, recursionStack, cycles, found]; found is dfs's return value
dfs(g, nodeId, path, st) ==
    IF OnRecursionStack(st, nodeId)
    THEN [st EXCEPT !.cycles = PushCycle(@, path, nodeId), !.found = TRUE]
    ELSE IF nodeId \in st.visited
    THEN [st EXCEPT !.found = FALSE]
    ELSE LET entered == [st EXCEPT !.visited = @ \cup {nodeId},
                                   !.recursionStack = @ \cup {nodeId}]
             r == dfsEdges(g, outgoingEdges(g, nodeId), 1,
                           Append(path, nodeId), entered)
         IN  IF r.found THEN r ELSE LeaveNode(r, nodeId)

\* the for-loop of lines 25-29 over the outgoing edges
dfsEdges(g, targets, i, path, st) ==
    IF i > Len(targets) THEN [st EXCEPT !.found = FALSE]
    ELSE LET r == dfs(g, targets[i], path, st)
         IN  IF r.found THEN r ELSE dfsEdges(g, targets, i + 1, path, r)

\* the for-loop of lines 35-39 over graph.nodes
RECURSIVE dfsRoots(_, _, _)
dfsRoots(g, i, st) ==
    IF i > Len(g.nodes) THEN st
    ELSE IF g.nodes[i].id \notin st.visited
         THEN dfsRoots(g, i + 1, dfs(g, g.nodes[i].id, <<>>, st))
         ELSE dfsRoots(g, i + 1, st)

detectCycles(g) ==
    dfsRoots(g, 1, [visited |-> {}, recursionStack |-> {},
                    cycles |-> <<>>, found |-> FALSE]).cycles

\* --------------------------------------------------------- topologicalSort
\* mutant: the edge direction is swapped while building the tables
RECURSIVE BuildTablesReversed(_, _, _)
BuildTablesReversed(edges, i, tbl) ==
    IF i > Len(edges) THEN tbl
    ELSE BuildTablesReversed(edges, i + 1,
            [inDegree      |-> [tbl.inDegree EXCEPT ![edges[i].source] = @ + 1],
             adjacencyList |-> [tbl.adjacencyList EXCEPT
                                   ![edges[i].target] = Append(@, edges[i].source)]])

\* lines 49-58: inDegree and adjacencyList
RECURSIVE BuildTables(_, _, _)
BuildTables(edges, i, tbl) ==
    IF i > Len(edges) THEN tbl
    ELSE BuildTables(edges, i + 1,
            [inDegree      |-> [tbl.inDegree EXCEPT ![edges[i].target] = @ + 1],
             adjacencyList |-> [tbl.adjacencyList EXCEPT
                                   ![edges[i].source] = Append(@, edges[i].target)]])

\* mutant: the seeding loop stops after the first zero-in-degree node
RECURSIVE SeedQueueFirstOnly(_, _, _)
SeedQueueFirstOnly(nodes, i, inDegree) ==
    IF i > Len(nodes) THEN <<>>
    ELSE IF inDegree[nodes[i].id] = 0
         THEN <<nodes[i].id>>
         ELSE SeedQueueFirstOnly(nodes, i + 1, inDegree)

\* lines 65-69: seed the queue, in graph node order
RECURSIVE SeedQueue(_, _, _)
SeedQueue(nodes, i, inDegree) ==
    IF i > Len(nodes) THEN <<>>
    ELSE IF inDegree[nodes[i].id] = 0
         THEN <<nodes[i].id>> \o SeedQueue(nodes, i + 1, inDegree)
         ELSE SeedQueue(nodes, i + 1, inDegree)

\* mutant: a neighbour is enqueued as soon as it has been reached once
ReachedZeroOrNot(inDegree, neighbor) == inDegree[neighbor] >= 0

\* line 77: a neighbour is enqueued when its in-degree reaches zero
ReachedZero(inDegree, neighbor) == inDegree[neighbor] = 0

\* lines 75-80
RECURSIVE RelaxNeighbors(_, _, _, _)
RelaxNeighbors(neighbors, i, inDegree, queue) ==
    IF i > Len(neighbors) THEN [inDegree |-> inDegree, queue |-> queue]
    ELSE LET neighbor == neighbors[i]
             d == [inDegree EXCEPT ![neighbor] = @ - 1]
         IN  RelaxNeighbors(neighbors, i + 1, d,
                 IF ReachedZero(d, neighbor) THEN Append(queue, neighbor) ELSE queue)

\* lines 71-81
RECURSIVE Kahn(_, _, _, _)
Kahn(queue, result, inDegree, adjacencyList) ==
    IF queue = <<>> THEN result
    ELSE LET current == Head(queue)
             r == RelaxNeighbors(adjacencyList[current], 1, inDegree, Tail(queue))
         IN  Kahn(r.queue, Append(result, current), r.inDegree, adjacencyList)

\* mutant: the length check is dropped
AllNodesProcessedAlways(result, g) == TRUE

\* line 84
AllNodesProcessed(result, g) == Len(result) = Len(g.nodes)

CyclesMessage == "Graph contains cycles"

\* [threw, message, value]: a thrown Error carries message, a return carries value
topologicalSort(g) ==
    LET tbl == BuildTables(g.edges, 1,
                   [inDegree      |-> [id \in NodeIds(g) |-> 0],
                    adjacencyList |-> [id \in NodeIds(g) |-> <<>>]])
        result == Kahn(SeedQueue(g.nodes, 1, tbl.inDegree), <<>>,
                       tbl.inDegree, tbl.adjacencyList)
    IN  IF AllNodesProcessed(result, g)
        THEN [threw |-> FALSE, message |-> "", value |-> result]
        ELSE [threw |-> TRUE, message |-> CyclesMessage, value |-> <<>>]

\* ------------------------------------------------------------ input graphs
\* A graph of n nodes with unique ids (the store draws ids from uuidv4) and
\* edges between existing nodes, duplicates and self-loops included.  Ids are
\* opaque labels, so the node list is taken in the order 1..n: any other order
\* of the nodes is this one after renaming, and the edge lists range over
\* every pair in every order.
GraphOf(n, types, edges) ==
    [nodes |-> [i \in 1..n |-> [id |-> i, type |-> types[i]]], edges |-> edges]

EdgesBetween(n, k) == [1..k -> [source : 1..n, target : 1..n]]

Min(a, b) == IF a < b THEN a ELSE b

\* --------------------------------------------------------------- JS values
\* every JS value is a record tagged with its type
Undefined == [t |-> "undefined"]
Null == [t |-> "null"]
Number(n) == [t |-> "number", v |-> n]

\* the object executeApiNode returns for a response with the given status
ApiOutput(status) == [t |-> "response", status |-> status]

\* HTTP statuses of the responses a request may get; validateStatus accepts all
HttpStatuses == {200, 500}

\* values an expression may evaluate to
EvalResults == {Number(14), Undefined}

\* JSON.stringify(v) is undefined (not a string) for undefined
StringifyIsUndefined(v) == v = Undefined

\* error messages
NoError == "(undefined)"
NetworkErrorMessage == "Network Error"
EvalErrorMessage == "Expression evaluation failed"
LengthOfUndefinedMessage == "Cannot read properties of undefined (reading 'length')"
UnknownTypeMessage == "Unknown node type"

\* A plain object with string keys that are not array indices: a sequence of
\* entries in insertion order; assigning an existing key keeps its position.
ObjHas(obj, key) == \E i \in DOMAIN obj : obj[i].key = key

ObjSet(obj, key, value) ==
    IF ObjHas(obj, key)
    THEN [i \in DOMAIN obj |->
            IF obj[i].key = key THEN [key |-> key, value |-> value] ELSE obj[i]]
    ELSE Append(obj, [key |-> key, value |-> value])

ObjGet(obj, key) == obj[CHOOSE i \in DOMAIN obj : obj[i].key = key].value

ObjKeys(obj) == {obj[i].key : i \in DOMAIN obj}

\* Object.values(obj)
ObjValues(obj) == [i \in DOMAIN obj |-> obj[i].value]

\* ------------------------------------------------------------------- store
IdleNode == [status |-> "idle", output |-> Undefined, error |-> NoError]

StoreInit ==
    /\ storeNodes = [n \in NodeIds(graph) |-> IdleNode]
    /\ isRunning = FALSE
    /\ executionLogs = <<>>

\* mutant: a node that is not in the list is put back with the update
updateNodeUpsert(nodes, id, status, output, error) ==
    [n \in DOMAIN nodes \cup {id} |->
        IF n = id THEN [status |-> status, output |-> output, error |-> error]
        ELSE nodes[n]]

\* mutant: the map has no id test, every node takes the update
updateNodeEveryNode(nodes, id, status, output, error) ==
    [n \in DOMAIN nodes |-> [status |-> status, output |-> output, error |-> error]]

\* updateNode(id, {status, output, error}): only the node with that id changes
updateNode(nodes, id, status, output, error) ==
    [n \in DOMAIN nodes |->
        IF n = id THEN [status |-> status, output |-> output, error |-> error]
        ELSE nodes[n]]

\* mutant: the reset sets the status only and leaves output and error
resetProjectNodesStatusOnly(nodes) ==
    [n \in DOMAIN nodes |-> [nodes[n] EXCEPT !.status = "idle"]]

\* resetProject: every node back to idle without output and error
resetProjectNodes(nodes) == [n \in DOMAIN nodes |-> IdleNode]

\* addExecutionLog appends; id and timestamp are left out
Log(level, message, node) == [level |-> level, message |-> message, node |-> node]

\* ------------------------------------------------------------ executeGraph
NoNode == [id |-> 0, type |-> "none"]

\* graph.nodes.find(n => n.id === nodeId)
FindNode(g, nodeId) ==
    IF \E i \in DOMAIN g.nodes : g.nodes[i].id = nodeId
    THEN g.nodes[CHOOSE i \in DOMAIN g.nodes :
                    g.nodes[i].id = nodeId /\ \A j \in 1..(i-1) : g.nodes[j].id # nodeId]
    ELSE NoNode

EmptyContext == [nodeOutputs |-> <<>>, nodeErrors |-> <<>>, nodeStatuses |-> <<>>]

NoRunError == [thrown |-> FALSE]

\* the executors' locals before the awaited call or the evaluation has returned
NoResponse == [received |-> FALSE]
NoResult == [returned |-> FALSE]
NoInput == [read |-> FALSE]

RunInit ==
    /\ pc = "idle"
    /\ runGraph = [nodes |-> <<>>, edges |-> <<>>]
    /\ executionOrder = <<>>
    /\ idx = 0
    /\ context = EmptyContext
    /\ updates = <<>>
    /\ runError = NoRunError
    /\ response = NoResponse
    /\ transformResult = NoResult
    /\ inputData = NoInput
    /\ cancelRequested = FALSE

\* mutant: off by one, a one-node cycle passes the check
CyclesFoundOffByOne(cycles) == Len(cycles) > 1

\* lines 97-99: the cycle check refuses the graph
CyclesFound(cycles) == Len(cycles) > 0

\* lines 96-103: what executeGraph does before it creates the context
\* [threw, message, cycles, order]
ExecuteGraphPrelude(g) ==
    LET cycles == detectCycles(g)
        sorted == topologicalSort(g)
    IN  IF CyclesFound(cycles)
        THEN [threw |-> TRUE, message |-> "Graph contains cycles: ",
              cycles |-> cycles, order |-> <<>>]
        ELSE IF sorted.threw
        THEN [threw |-> TRUE, message |-> sorted.message,
              cycles |-> <<>>, order |-> <<>>]
        ELSE [threw |-> FALSE, message |-> "", cycles |-> <<>>, order |-> sorted.value]

\* mutant: the output stored last is taken
getNodeInputDataLast(ctx) ==
    LET upstreamOutputs == ObjValues(ctx.nodeOutputs)
    IN  IF Len(upstreamOutputs) > 0 THEN upstreamOutputs[Len(upstreamOutputs)] ELSE Null

\* getNodeInputData: the first of Object.values(context.nodeOutputs), or null
getNodeInputData(ctx) ==
    LET upstreamOutputs == ObjValues(ctx.nodeOutputs)
    IN  IF Len(upstreamOutputs) > 0 THEN upstreamOutputs[1] ELSE Null

\* the node the for-loop is at
CurrentId == executionOrder[idx]
CurrentNode == FindNode(runGraph, CurrentId)

\* handleRunGraph's guard (part_000 line 156).  The Run command is not issued
\* while an invocation is in flight.
HandleRunGraphEnabled ==
    /\ pc \in {"idle", "completed", "failed"}
    /\ ~isRunning

\* isRunning after setIsRunning(true); clearExecutionLogs(); resetProject():
\* resetProject itself sets isRunning back to false (store line 211)
IsRunningAfterReset == FALSE

\* executeGraph rejects: the rejection is caught and logged, and finally
\* setIsRunning(false)
RunGraphRejected(pre) ==
    /\ runError' = [thrown |-> TRUE, message |-> pre.message, cycles |-> pre.cycles]
    /\ executionLogs' = <<[level |-> "error",
                           message |-> "Graph execution failed: " \o pre.message,
                           cycles |-> pre.cycles]>>
    /\ isRunning' = FALSE
    /\ pc' = "failed"
    /\ executionOrder' = <<>>
    /\ idx' = 0

\* executeGraph accepts the graph and comes to the head of its loop
RunGraphStarted(pre) ==
    /\ runError' = NoRunError
    /\ executionLogs' = <<Log("info", "Starting execution", 0)>>
    /\ isRunning' = IsRunningAfterReset
    /\ pc' = "loop"
    /\ executionOrder' = pre.order
    /\ idx' = 1

\* handleRunGraph (part_000 lines 155-179) up to the first await of
\* executeGraph, or to its end when executeGraph rejects
HandleRunGraph ==
    /\ HandleRunGraphEnabled
    /\ storeNodes' = resetProjectNodes(storeNodes)
    /\ runGraph' = graph
    /\ context' = EmptyContext
    /\ updates' = <<>>
    /\ response' = NoResponse
    /\ transformResult' = NoResult
    /\ inputData' = NoInput
    /\ LET pre == ExecuteGraphPrelude(graph)
       IN  IF pre.threw THEN RunGraphRejected(pre) ELSE RunGraphStarted(pre)
    /\ cancelRequested' = FALSE
    /\ UNCHANGED <<graph, pureVars>>

\* lines 117-127: the next node of the order is marked running
BeginNode ==
    /\ pc = "loop"
    /\ idx <= Len(executionOrder)
    /\ IF CurrentNode = NoNode
       THEN /\ idx' = idx + 1
            /\ UNCHANGED <<storeVars, pc, context, updates, executorVars>>
       ELSE /\ storeNodes' = updateNode(storeNodes, CurrentId, "running", Undefined, NoError)
            /\ updates' = Append(updates, [nodeId |-> CurrentId, status |-> "running"])
            /\ context' = [context EXCEPT
                              !.nodeStatuses = ObjSet(@, CurrentId, "running")]
            /\ executionLogs' = Append(executionLogs, Log("info", "Executing node", CurrentId))
            /\ pc' = "exec"
            /\ response' = NoResponse
            /\ transformResult' = NoResult
            /\ inputData' = NoInput
            /\ UNCHANGED <<idx, isRunning>>
    /\ UNCHANGED <<graph, cancelRequested, pureVars, runGraph, executionOrder, runError>>

\* mutant: context.nodeStatuses[nodeId] = 'success' is forgotten
NodeSucceededStaysRunning(output, executorLogs) ==
    /\ context' = [context EXCEPT !.nodeOutputs = ObjSet(@, CurrentId, output)]
    /\ storeNodes' = updateNode(storeNodes, CurrentId, "success", output, NoError)
    /\ updates' = Append(updates, [nodeId |-> CurrentId, status |-> "success"])
    /\ executionLogs' = executionLogs \o executorLogs
                          \o <<Log("info", "Node completed successfully", CurrentId)>>
    /\ pc' = "loop"
    /\ idx' = idx + 1
    /\ UNCHANGED <<graph, cancelRequested, pureVars, isRunning, runGraph, executionOrder, runError>>

\* mutant: the log call after the success update throws inside the try block,
\* so the catch block reports the node a second time
NodeSucceededThenCaught(output, executorLogs) ==
    /\ context' = [context EXCEPT
                      !.nodeOutputs = ObjSet(@, CurrentId, output),
                      !.nodeErrors = ObjSet(@, CurrentId, "log failed"),
                      !.nodeStatuses = ObjSet(@, CurrentId, "error")]
    /\ storeNodes' = updateNode(storeNodes, CurrentId, "error", Undefined, "log failed")
    /\ updates' = updates \o <<[nodeId |-> CurrentId, status |-> "success"],
                               [nodeId |-> CurrentId, status |-> "error"]>>
    /\ executionLogs' = executionLogs \o executorLogs
                          \o <<Log("error", "Node failed: log failed", CurrentId)>>
    /\ pc' = "loop"
    /\ idx' = idx + 1
    /\ UNCHANGED <<graph, cancelRequested, pureVars, isRunning, runGraph, executionOrder, runError>>

\* lines 145-153: the executor returned output
NodeSucceeded(output, executorLogs) ==
    /\ context' = [context EXCEPT
                      !.nodeOutputs = ObjSet(@, CurrentId, output),
                      !.nodeStatuses = ObjSet(@, CurrentId, "success")]
    /\ storeNodes' = updateNode(storeNodes, CurrentId, "success", output, NoError)
    /\ updates' = Append(updates, [nodeId |-> CurrentId, status |-> "success"])
    /\ executionLogs' = executionLogs \o executorLogs
                          \o <<Log("info", "Node completed successfully", CurrentId)>>
    /\ pc' = "loop"
    /\ idx' = idx + 1
    /\ UNCHANGED <<graph, cancelRequested, pureVars, isRunning, runGraph, executionOrder, runError>>

\* mutant: no try/catch around the node, the executor's error rejects executeGraph
NodeFailedAborts(errorMessage, executorLogs) ==
    /\ runError' = [thrown |-> TRUE, message |-> errorMessage, cycles |-> <<>>]
    /\ executionLogs' = executionLogs \o executorLogs
                          \o <<[level |-> "error",
                                message |-> "Graph execution failed: " \o errorMessage,
                                cycles |-> <<>>]>>
    /\ pc' = "failed"
    /\ UNCHANGED <<graph, cancelRequested, pureVars, storeNodes, isRunning, runGraph, executionOrder,
                   idx, context, updates>>

\* mutant: the catch block also stores the (undefined) output of the node
NodeFailedStoresOutput(errorMessage, executorLogs) ==
    /\ context' = [context EXCEPT
                      !.nodeOutputs = ObjSet(@, CurrentId, Undefined),
                      !.nodeErrors = ObjSet(@, CurrentId, errorMessage),
                      !.nodeStatuses = ObjSet(@, CurrentId, "error")]
    /\ storeNodes' = updateNode(storeNodes, CurrentId, "error", Undefined, errorMessage)
    /\ updates' = Append(updates, [nodeId |-> CurrentId, status |-> "error"])
    /\ executionLogs' = executionLogs \o executorLogs
                          \o <<Log("error", "Node failed: " \o errorMessage, CurrentId)>>
    /\ pc' = "loop"
    /\ idx' = idx + 1
    /\ UNCHANGED <<graph, cancelRequested, pureVars, isRunning, runGraph, executionOrder, runError>>

\* lines 155-168: the executor threw; the error is recorded and the loop goes on
NodeFailed(errorMessage, executorLogs) ==
    /\ context' = [context EXCEPT
                      !.nodeErrors = ObjSet(@, CurrentId, errorMessage),
                      !.nodeStatuses = ObjSet(@, CurrentId, "error")]
    /\ storeNodes' = updateNode(storeNodes, CurrentId, "error", Undefined, errorMessage)
    /\ updates' = Append(updates, [nodeId |-> CurrentId, status |-> "error"])
    /\ executionLogs' = executionLogs \o executorLogs
                          \o <<Log("error", "Node failed: " \o errorMessage, CurrentId)>>
    /\ pc' = "loop"
    /\ idx' = idx + 1
    /\ UNCHANGED <<graph, cancelRequested, pureVars, isRunning, runGraph, executionOrder, runError>>

\* mutant: validateStatus is left at its default, so a response with an error
\* status rejects the request
ApiNodeRespondsValidated ==
    /\ pc = "exec"
    /\ CurrentNode.type = "api"
    /\ \E status \in HttpStatuses :
          /\ response' = [received |-> TRUE, status |-> status]
          /\ IF status >= 400
             THEN NodeFailed("Request failed with status code",
                     <<Log("info", "Making request", CurrentId),
                       Log("error", "API call failed", CurrentId)>>)
             ELSE NodeSucceeded(ApiOutput(status),
                     <<Log("info", "Making request", CurrentId),
                       Log("info", "API call completed", CurrentId)>>)
    /\ UNCHANGED <<transformResult, inputData>>

\* executeApiNode: axios resolves with a response of any status
ApiNodeResponds ==
    /\ pc = "exec"
    /\ CurrentNode.type = "api"
    /\ \E status \in HttpStatuses :
          /\ response' = [received |-> TRUE, status |-> status]
          /\ NodeSucceeded(ApiOutput(status),
                <<Log("info", "Making request", CurrentId),
                  Log("info", "API call completed", CurrentId)>>)
    /\ UNCHANGED <<transformResult, inputData>>

\* executeApiNode: axios rejects (no response); the error is logged and rethrown
ApiNodeFails ==
    /\ pc = "exec"
    /\ CurrentNode.type = "api"
    /\ NodeFailed(NetworkErrorMessage,
          <<Log("info", "Making request", CurrentId),
            Log("error", "API call failed: " \o NetworkErrorMessage, CurrentId)>>)
    /\ UNCHANGED executorVars

\* executeTransformNode: safeEval returns result; the log entry that follows
\* reads JSON.stringify(result).length inside the try block
TransformNodeEvaluates ==
    /\ pc = "exec"
    /\ CurrentNode.type = "transform"
    /\ \E value \in EvalResults :
          /\ transformResult' = [returned |-> TRUE, value |-> value]
          /\ IF StringifyIsUndefined(value)
             THEN NodeFailed(LengthOfUndefinedMessage,
                     <<Log("info", "Executing transform expression", CurrentId),
                       Log("error", "Transform failed: " \o LengthOfUndefinedMessage, CurrentId)>>)
             ELSE NodeSucceeded(value,
                     <<Log("info", "Executing transform expression", CurrentId),
                       Log("info", "Transform completed successfully", CurrentId)>>)
    /\ inputData' = [read |-> TRUE, value |-> getNodeInputData(context)]
    /\ UNCHANGED response

\* executeTransformNode: safeEval throws
TransformNodeThrows ==
    /\ pc = "exec"
    /\ CurrentNode.type = "transform"
    /\ NodeFailed(EvalErrorMessage,
          <<Log("info", "Executing transform expression", CurrentId),
            Log("error", "Transform failed: " \o EvalErrorMessage, CurrentId)>>)
    /\ inputData' = [read |-> TRUE, value |-> getNodeInputData(context)]
    /\ UNCHANGED <<response, transformResult>>

\* executeOutputNode: passes its input data on
OutputNodeReturns ==
    /\ pc = "exec"
    /\ CurrentNode.type = "output"
    /\ NodeSucceeded(getNodeInputData(context),
          <<Log("info", "Output node received data", CurrentId)>>)
    /\ inputData' = [read |-> TRUE, value |-> getNodeInputData(context)]
    /\ UNCHANGED <<response, transformResult>>

\* the default branch of the switch
UnknownNodeType ==
    /\ pc = "exec"
    /\ CurrentNode.type \notin NodeTypes
    /\ NodeFailed(UnknownTypeMessage, <<>>)
    /\ UNCHANGED executorVars

\* mutant: the failed count is taken without its filter
FinishRunFailedUnfiltered ==
    /\ pc = "loop"
    /\ idx > Len(executionOrder)
    /\ LET statuses == ObjValues(context.nodeStatuses)
       IN  executionLogs' = Append(executionLogs,
              [level |-> "info", message |-> "Graph execution completed",
               successful |-> Cardinality({i \in DOMAIN statuses : statuses[i] = "success"}),
               failed |-> Len(statuses),
               total |-> Len(runGraph.nodes)])
    /\ isRunning' = FALSE
    /\ pc' = "completed"
    /\ UNCHANGED <<graph, cancelRequested, pureVars, storeNodes, runGraph, executionOrder, idx,
                   context, updates, runError, executorVars>>

\* lines 171-181 and the finally block of handleRunGraph
FinishRun ==
    /\ pc = "loop"
    /\ idx > Len(executionOrder)
    /\ LET statuses == ObjValues(context.nodeStatuses)
       IN  executionLogs' = Append(executionLogs,
              [level |-> "info", message |-> "Graph execution completed",
               successful |-> Cardinality({i \in DOMAIN statuses : statuses[i] = "success"}),
               failed |-> Cardinality({i \in DOMAIN statuses : statuses[i] = "error"}),
               total |-> Len(runGraph.nodes)])
    /\ isRunning' = FALSE
    /\ pc' = "completed"
    /\ UNCHANGED <<graph, cancelRequested, pureVars, storeNodes, runGraph, executionOrder, idx,
                   context, updates, runError, executorVars>>

NotCalled == [called |-> FALSE]

\* executeApiNode has not built a url
NoRequest ==
    /\ useCorsProxy = FALSE
    /\ finalUrl = NotCalled

\* the project as loaded: one id drawn per node, one invocation at most
NoSession ==
    /\ uuidCount = Len(graph.nodes)
    /\ parked = <<>>

\* interpolateVariables has not been called
NoInterpolation ==
    /\ template = <<>>
    /\ nodeOutputs = <<>>
    /\ interpolated = NotCalled

\* ----------------------------------------------------- interpolateVariables
\* A string is a sequence of symbols: "{", "}", ".", " ", the text character
\* "x", or an identifier taken as one symbol (identifiers hold none of the
\* first four).
Str(s) == [t |-> "string", v |-> s]
Bool(b) == [t |-> "boolean", v |-> b]
\* a plain object; props are its own entries in insertion order
Obj(props) == [t |-> "object", props |-> props]
\* the function Object, which every plain object inherits as its constructor
ObjectFunction == [t |-> "function", name |-> "Object"]

\* property names a plain object inherits from Object.prototype (one of them)
InheritedKeys == {"constructor"}

\* if (v)
Truthy(v) ==
    ~(v = Undefined \/ v = Null \/ v = Number(0) \/ v = Str("") \/ v = Bool(FALSE))

\* typeof v === 'object'
TypeofObject(v) == v.t \in {"object", "null"}

\* key in obj: own properties and inherited ones
KeyIn(key, obj) == ObjHas(obj.props, key) \/ key \in InheritedKeys

\* obj[key] for a key that is in obj
GetProp(obj, key) ==
    IF ObjHas(obj.props, key) THEN ObjGet(obj.props, key) ELSE ObjectFunction

\* String(v), as a symbol sequence
ToStr(v) ==
    CASE v.t = "string" -> IF v.v = "" THEN <<>> ELSE <<v.v>>
      [] v.t = "number" -> <<ToString(v.v)>>
      [] v.t = "boolean" -> <<IF v.v THEN "true" ELSE "false">>
      [] v.t = "null" -> <<"null">>
      [] v.t = "object" -> <<"[object Object]">>
      [] v.t = "function" -> <<"function Object() { [native code] }">>

\* path.trim()
RECURSIVE TrimStart(_)
TrimStart(s) == IF Len(s) > 0 /\ s[1] = " " THEN TrimStart(Tail(s)) ELSE s

RECURSIVE TrimEnd(_)
TrimEnd(s) ==
    IF Len(s) > 0 /\ s[Len(s)] = " " THEN TrimEnd(SubSeq(s, 1, Len(s) - 1)) ELSE s

Trim(s) == TrimEnd(TrimStart(s))

\* path.split('.'): the segments between the dots, at least one
RECURSIVE SplitFrom(_, _, _, _)
SplitFrom(s, i, segment, acc) ==
    IF i > Len(s) THEN Append(acc, segment)
    ELSE IF s[i] = "." THEN SplitFrom(s, i + 1, <<>>, Append(acc, segment))
    ELSE SplitFrom(s, i + 1, Append(segment, s[i]), acc)

Split(s) == SplitFrom(s, 1, <<>>, <<>>)

\* A segment as a property key.  Only a segment of one identifier can name a
\* property; the empty segment and segments of several symbols are keys that
\* no object has, all written "".
KeyOf(segment) == IF Len(segment) = 1 THEN segment[1] ELSE ""

\* lines 25-32: reduce over the keys
RECURSIVE ReduceKeys(_, _, _)
ReduceKeys(segments, i, current) ==
    IF i > Len(segments) THEN current
    ELSE ReduceKeys(segments, i + 1,
            IF Truthy(current) /\ TypeofObject(current)
                  /\ KeyIn(KeyOf(segments[i]), current)
            THEN GetProp(current, KeyOf(segments[i]))
            ELSE Undefined)

getNestedValue(obj, path) == ReduceKeys(Split(path), 1, obj)

\* mutant: the node<index> keys count from one
AllDataOneBased(outputs) ==
    LET values == ObjValues(outputs)
        numbered == [i \in DOMAIN values |->
                        [key |-> "node" \o ToString(i), value |-> values[i]]]
        firstOutput == IF Len(values) > 0 THEN values[1] ELSE Undefined
    IN  Obj(IF Truthy(firstOutput) THEN ObjSet(numbered, "data", firstOutput)
            ELSE numbered)

\* lines 5-14: node<index> for every output, and data for a truthy first output
AllData(outputs) ==
    LET values == ObjValues(outputs)
        numbered == [i \in DOMAIN values |->
                        [key |-> "node" \o ToString(i - 1), value |-> values[i]]]
        firstOutput == IF Len(values) > 0 THEN values[1] ELSE Undefined
    IN  Obj(IF Truthy(firstOutput) THEN ObjSet(numbered, "data", firstOutput)
            ELSE numbered)

\* lines 2-22: the replacer callback; nothing inside its try block throws
Replacer(match, path, outputs) ==
    LET value == getNestedValue(AllData(outputs), Trim(path))
    IN  IF value # Undefined THEN ToStr(value) ELSE match

\* the first "}" at or after position j, or Len(t) + 1
RECURSIVE NextClose(_, _)
NextClose(t, j) == IF j > Len(t) \/ t[j] = "}" THEN j ELSE NextClose(t, j + 1)

\* /\{\{([^}]+)\}\}/ tried at position i: the position of the match's last
\* symbol, or 0.  [^}]+ runs to the first "}", where "}}" has to follow.
MatchAt(t, i) ==
    IF i + 1 <= Len(t) /\ t[i] = "{" /\ t[i + 1] = "{"
    THEN LET c == NextClose(t, i + 2)
         IN  IF c >= i + 3 /\ c + 1 <= Len(t) /\ t[c + 1] = "}" THEN c + 1 ELSE 0
    ELSE 0

\* template.replace(regex with the g flag, replacer) from position i on
RECURSIVE ReplaceFrom(_, _, _)
ReplaceFrom(t, i, outputs) ==
    IF i > Len(t) THEN <<>>
    ELSE LET e == MatchAt(t, i)
         IN  IF e = 0 THEN <<t[i]>> \o ReplaceFrom(t, i + 1, outputs)
             ELSE Replacer(SubSeq(t, i, e), SubSeq(t, i + 2, e - 2), outputs)
                     \o ReplaceFrom(t, e + 1, outputs)

interpolateVariables(t, outputs) == ReplaceFrom(t, 1, outputs)

\* ------------------------------------------------------------------ safeEval
\* An expression is a literal, an identifier, a property read identifier.key,
\* or text that does not parse.
Literal(v) == [kind |-> "literal", value |-> v]
Ident(name) == [kind |-> "ident", name |-> name]
Member(name, key) == [kind |-> "member", name |-> name, key |-> key]
Unparsable == [kind |-> "unparsable"]

\* lines 6-18: the names safeEval passes as parameters of the function
ContextKeys ==
    {"_", "data", "Math", "JSON", "Array", "Object", "String", "Number",
     "Boolean", "Date", "RegExp"}

\* names bound in the global scope of the host (a browser window), where the
\* Function constructor creates its functions
HostGlobals == {"window", "globalThis", "fetch", "setTimeout"}

\* Object.values(context): the value passed for a parameter
ContextValue(name, input) ==
    IF name = "data" THEN input ELSE [t |-> "builtin", name |-> name]

HostValue(name) == [t |-> "host", name |-> name]

Returned(v) == [threw |-> FALSE, value |-> v]
Thrown(name, message) == [threw |-> TRUE, name |-> name, message |-> message]

\* an identifier in the function body: a parameter, else a global binding,
\* else a ReferenceError
ResolveIdentifier(name, input) ==
    IF name \in ContextKeys THEN Returned(ContextValue(name, input))
    ELSE IF name \in HostGlobals THEN Returned(HostValue(name))
    ELSE Thrown("ReferenceError", name \o " is not defined")

\* value.key
ReadProperty(v, key) ==
    IF v \in {Null, Undefined}
    THEN Thrown("TypeError", "Cannot read properties of " \o v.t)
    ELSE IF v.t = "object"
    THEN Returned(IF ObjHas(v.props, key) THEN ObjGet(v.props, key) ELSE Undefined)
    ELSE IF v.t \in {"builtin", "host"}
    THEN Returned([t |-> "function", name |-> v.name \o "." \o key])
    ELSE Returned(Undefined)

\* line 27: the call of the compiled function
CallSafeFunction(e, input) ==
    CASE e.kind = "literal" -> Returned(e.value)
      [] e.kind = "ident" -> ResolveIdentifier(e.name, input)
      [] e.kind = "member" ->
            LET object == ResolveIdentifier(e.name, input)
            IN  IF object.threw THEN object ELSE ReadProperty(object.value, e.key)

\* line 29: the error the catch block throws
WrapError(error) ==
    Thrown("Error", "Expression evaluation failed: " \o error.message)

\* lines 4-31.  new Function(...) compiles the body before the try block is
\* entered: text that does not parse throws its SyntaxError from there.
safeEval(e, input) ==
    IF e.kind = "unparsable"
    THEN Thrown("SyntaxError", "Unexpected token")
    ELSE LET outcome == CallSafeFunction(e, input)
         IN  IF outcome.threw THEN WrapError(outcome) ELSE outcome

\* safeEval has not been called
NoEvaluation ==
    /\ expression = Literal(Undefined)
    /\ data = Null
    /\ evaluated = NotCalled

\* ------------------------------------------------ specification: SpecSort
\* the two pure functions applied to every bounded graph
InitSort ==
    /\ \E n \in 0..MaxNodes : \E k \in 0..MaxEdges :
          \E types \in [1..n -> {"api"}], edges \in EdgesBetween(n, k) :
              graph = GraphOf(n, types, edges)
    /\ cyclesResult = NotCalled
    /\ sortResult = NotCalled
    /\ NoInterpolation
    /\ NoEvaluation
    /\ StoreInit
    /\ RunInit
    /\ NoRequest
    /\ NoSession

CallDetectCycles ==
    /\ cyclesResult = NotCalled
    /\ cyclesResult' = [called |-> TRUE, value |-> detectCycles(graph)]
    /\ UNCHANGED <<graph, cancelRequested, requestVars, sessionVars, sortResult, interpVars, evalVars, storeVars, runVars>>

CallTopologicalSort ==
    /\ sortResult = NotCalled
    /\ sortResult' = [called |-> TRUE] @@ topologicalSort(graph)
    /\ UNCHANGED <<graph, cancelRequested, requestVars, sessionVars, cyclesResult, interpVars, evalVars, storeVars, runVars>>

NextSort == CallDetectCycles \/ CallTopologicalSort

SpecSort == InitSort /\ [][NextSort]_vars

\* ----------------------------------------- specification: SpecInterpolate
\* interpolateVariables applied to bounded templates and outputs maps
PathKeys == {"data", "node0", "name", "constructor"}

\* values a node may have put into context.nodeOutputs
OutputValues ==
    {Null, Number(0), Str(""), Bool(FALSE), Obj(<<[key |-> "name", value |-> Str("x")]>>)}

RECURSIVE JoinDots(_)
JoinDots(path) ==
    IF Len(path) <= 1 THEN path
    ELSE <<path[1], ".">> \o JoinDots(Tail(path))

\* the token {{path}} (with a blank on either side when padded); no token for
\* the empty path
Token(path, padded) ==
    IF Len(path) = 0 THEN <<>>
    ELSE LET blank == IF padded THEN <<" ">> ELSE <<>>
         IN  <<"{", "{">> \o blank \o JoinDots(path) \o blank \o <<"}", "}">>

\* templates of the shape text token text token text
InitInterpolate ==
    /\ \E n1 \in 0..MaxTemplateKeys : \E n2 \in 0..(MaxTemplateKeys - n1) :
          \E path1 \in [1..n1 -> PathKeys], path2 \in [1..n2 -> PathKeys],
             padded \in BOOLEAN,
             prefix \in {<<>>, <<"x">>, <<"{">>},
             mid \in {<<>>, <<"x">>},
             suffix \in {<<>>, <<"}">>} :
              template = prefix \o Token(path1, padded) \o mid
                            \o Token(path2, padded) \o suffix
    /\ \E k \in 0..MaxOutputs : \E values \in [1..k -> OutputValues] :
          nodeOutputs = [i \in 1..k |-> [key |-> i, value |-> values[i]]]
    /\ interpolated = NotCalled
    /\ NoEvaluation
    /\ graph = GraphOf(0, <<>>, <<>>)
    /\ cyclesResult = NotCalled
    /\ sortResult = NotCalled
    /\ StoreInit
    /\ RunInit
    /\ NoRequest
    /\ NoSession

CallInterpolateVariables ==
    /\ interpolated = NotCalled
    /\ interpolated' = [called |-> TRUE, threw |-> FALSE,
                        value |-> interpolateVariables(template, nodeOutputs)]
    /\ UNCHANGED <<graph, cancelRequested, requestVars, sessionVars, cyclesResult, sortResult, template,
                   nodeOutputs, evalVars, storeVars, runVars>>

NextInterpolate == CallInterpolateVariables

SpecInterpolate == InitInterpolate /\ [][NextInterpolate]_vars

\* ------------------------------------------------ specification: SpecEval
\* safeEval applied to every expression of the shapes above
IdentifierNames == ContextKeys \cup HostGlobals \cup {"foo"}

Expressions ==
    {Literal(v) : v \in {Number(14), Undefined}}
        \cup {Ident(name) : name \in IdentifierNames}
        \cup {Member(name, key) : name \in IdentifierNames, key \in {"name", "length"}}
        \cup {Unparsable}

InitEval ==
    /\ expression \in Expressions
    /\ data \in OutputValues
    /\ evaluated = NotCalled
    /\ graph = GraphOf(0, <<>>, <<>>)
    /\ cyclesResult = NotCalled
    /\ sortResult = NotCalled
    /\ NoInterpolation
    /\ StoreInit
    /\ RunInit
    /\ NoRequest
    /\ NoSession

CallSafeEval ==
    /\ evaluated = NotCalled
    /\ evaluated' = [called |-> TRUE] @@ safeEval(expression, data)
    /\ UNCHANGED <<graph, cancelRequested, requestVars, sessionVars, cyclesResult, sortResult, interpVars,
                   expression, data, storeVars, runVars>>

NextEval == CallSafeEval

SpecEval == InitEval /\ [][NextEval]_vars

\* ------------------------------------------------- executeApiNode: the url
\* A url is a symbol sequence like every string here.  Its symbols are whole
\* pieces ("http://", "localhost", ":3000", ...), none a prefix of another, so
\* that a prefix of symbols is a prefix of characters.
CorsProxyPrefix == <<"https://cors-anywhere.herokuapp.com/">>

\* the literal 'http://localhost'
LocalhostPrefix == <<"http://", "localhost">>

\* String.prototype.startsWith
StartsWith(s, prefix) ==
    Len(s) >= Len(prefix) /\ SubSeq(s, 1, Len(prefix)) = prefix

\* lines 297 and 321-323: const finalUrl
FinalUrl(url, outputs, useProxy) ==
    LET interpolatedUrl == interpolateVariables(url, outputs)
    IN  IF useProxy /\ ~StartsWith(interpolatedUrl, LocalhostPrefix)
        THEN CorsProxyPrefix \o interpolatedUrl
        ELSE interpolatedUrl

\* ------------------------------------------- specification: SpecRequestUrl
\* executeApiNode's url for templates scheme host rest, where scheme and host
\* are written out or come from an earlier node's output
UrlSchemes == {<<"http://">>, <<"https://">>}
UrlHosts == {<<"localhost">>, <<"127.0.0.1">>, <<"api.example.com">>}
UrlRests == {<<>>, <<":3000">>, <<"/x">>, <<".example.com">>}
UrlOutputValues == {Str("http://"), Str("localhost"), Str("api.example.com"), Null}

InitRequestUrl ==
    /\ \E scheme \in UrlSchemes \cup {Token(<<"node0">>, FALSE)},
          host \in UrlHosts \cup {Token(<<"node0">>, FALSE)},
          rest \in UrlRests :
              template = scheme \o host \o rest
    /\ \E k \in 0..MaxOutputs : \E values \in [1..k -> UrlOutputValues] :
          nodeOutputs = [i \in 1..k |-> [key |-> i, value |-> values[i]]]
    /\ interpolated = NotCalled
    /\ useCorsProxy \in BOOLEAN
    /\ finalUrl = NotCalled
    /\ NoEvaluation
    /\ graph = GraphOf(0, <<>>, <<>>)
    /\ cyclesResult = NotCalled
    /\ sortResult = NotCalled
    /\ StoreInit
    /\ RunInit
    /\ NoSession

\* executeApiNode up to the axios call
CallExecuteApiNode ==
    /\ finalUrl = NotCalled
    /\ interpolated' = [called |-> TRUE, threw |-> FALSE,
                        value |-> interpolateVariables(template, nodeOutputs)]
    /\ finalUrl' = [called |-> TRUE,
                    value |-> FinalUrl(template, nodeOutputs, useCorsProxy)]
    /\ UNCHANGED <<graph, cancelRequested, cyclesResult, sortResult, template, nodeOutputs,
                   useCorsProxy, evalVars, sessionVars, storeVars, runVars>>

NextRequestUrl == CallExecuteApiNode

SpecRequestUrl == InitRequestUrl /\ [][NextRequestUrl]_vars

\* ---------------------------------------------------- specification: Spec
\* a project graph run through handleRunGraph, any number of times
Init ==
    /\ \E n \in 0..MaxRunNodes : \E k \in 0..Min(MaxRunEdges, MaxRunSize - 2 * n) :
          \E types \in [1..n -> NodeTypes \cup {UnknownType}], edges \in EdgesBetween(n, k) :
              graph = GraphOf(n, types, edges)
    /\ cyclesResult = NotCalled
    /\ sortResult = NotCalled
    /\ NoInterpolation
    /\ NoEvaluation
    /\ StoreInit
    /\ RunInit
    /\ NoRequest
    /\ NoSession

Next ==
    \/ HandleRunGraph
    \/ BeginNode
    \/ ApiNodeResponds
    \/ ApiNodeFails
    \/ TransformNodeEvaluates
    \/ TransformNodeThrows
    \/ OutputNodeReturns
    \/ UnknownNodeType
    \/ FinishRun

Spec == Init /\ [][Next]_vars

\* --------------------------------------------------- specification: SpecCancel
\* The caller asks for the run to be aborted.  executeGraph takes the graph and
\* the two callbacks only and handleRunGraph keeps no handle on the run, so
\* the request reaches nothing the loop reads.  Handlers of the caller run
\* only while executeGraph is suspended, which is at the axios call.
RequestCancel ==
    /\ pc = "exec"
    /\ CurrentNode.type = "api"
    /\ ~cancelRequested
    /\ cancelRequested' = TRUE
    /\ UNCHANGED <<graph, pureVars, storeVars, runVars>>

NextCancel == Next \/ RequestCancel

SpecCancel == Init /\ [][NextCancel]_vars

\* ------------------------------------------- the store's graph operations
\* addNode (store lines 65-88): the node is appended with a fresh id
addNode(g, id, type) ==
    [g EXCEPT !.nodes = Append(@, [id |-> id, type |-> type])]

\* removeNode (lines 110-132): the node and the edges at it are filtered out
removeNode(g, id) ==
    [nodes |-> SelectSeq(g.nodes, LAMBDA node : node.id # id),
     edges |-> SelectSeq(g.edges, LAMBDA edge : edge.source # id /\ edge.target # id)]

\* addEdge (lines 134-152): the edge is appended with a fresh id, as it is
addEdge(g, id, source, target) ==
    [g EXCEPT !.edges = Append(@, [id |-> id, source |-> source, target |-> target])]

\* removeEdge (lines 154-172)
removeEdge(g, id) ==
    [g EXCEPT !.edges = SelectSeq(@, LAMBDA edge : edge.id # id)]

EdgeIds(g) == {g.edges[i].id : i \in DOMAIN g.edges}

\* The browser dispatches a user event only when no JavaScript is running:
\* no invocation of handleRunGraph exists, or it is suspended at the axios call.
EventLoopIdle ==
    \/ pc \in {"idle", "completed", "failed"}
    \/ pc = "exec" /\ CurrentNode.type = "api"

AddNode(type) ==
    /\ EventLoopIdle
    /\ uuidCount < MaxUuids
    /\ uuidCount' = uuidCount + 1
    /\ graph' = addNode(graph, uuidCount + 1, type)
    /\ storeNodes' = [n \in DOMAIN storeNodes \cup {uuidCount + 1} |->
                        IF n \in DOMAIN storeNodes THEN storeNodes[n] ELSE IdleNode]
    /\ UNCHANGED <<cancelRequested, cyclesResult, sortResult, interpVars, evalVars,
                   requestVars, parked, isRunning, executionLogs, runVars>>

RemoveNode(id) ==
    /\ EventLoopIdle
    /\ graph' = removeNode(graph, id)
    /\ storeNodes' = [n \in DOMAIN storeNodes \ {id} |-> storeNodes[n]]
    /\ UNCHANGED <<cancelRequested, pureVars, isRunning, executionLogs, runVars>>

AddEdge(source, target) ==
    /\ EventLoopIdle
    /\ uuidCount < MaxUuids
    /\ uuidCount' = uuidCount + 1
    /\ graph' = addEdge(graph, uuidCount + 1, source, target)
    /\ UNCHANGED <<cancelRequested, cyclesResult, sortResult, interpVars, evalVars,
                   requestVars, parked, storeVars, runVars>>

RemoveEdge(id) ==
    /\ EventLoopIdle
    /\ graph' = removeEdge(graph, id)
    /\ UNCHANGED <<cancelRequested, pureVars, storeVars, runVars>>

\* ------------------------------------------------ specification: SpecStore
\* The four operations called in any order on a new project.  addEdge takes
\* whatever source and target its caller passes: ids of nodes, or an id that
\* names none.
GhostId == 0

InitStore ==
    /\ graph = [nodes |-> <<>>, edges |-> <<>>]
    /\ cyclesResult = NotCalled
    /\ sortResult = NotCalled
    /\ NoInterpolation
    /\ NoEvaluation
    /\ StoreInit
    /\ RunInit
    /\ NoRequest
    /\ NoSession

NextStore ==
    \/ \E type \in NodeTypes : AddNode(type)
    \/ \E source, target \in NodeIds(graph) \cup {GhostId} : AddEdge(source, target)
    \/ \E id \in NodeIds(graph) : RemoveNode(id)
    \/ \E id \in EdgeIds(graph) : RemoveEdge(id)

SpecStore == InitStore /\ [][NextStore]_vars

\* ------------------------------------------------- specification: SpecEdit
\* A new project that the user builds, runs and goes on editing while a run is
\* suspended.  onDrop adds the node type the drag carries, unchecked, and
\* onConnect joins two nodes of the canvas.
NextEdit ==
    \/ Next
    \/ \E type \in NodeTypes \cup {UnknownType} : AddNode(type)
    \/ \E source, target \in NodeIds(graph) : AddEdge(source, target)
    \/ \E id \in NodeIds(graph) : RemoveNode(id)
    \/ \E id \in EdgeIds(graph) : RemoveEdge(id)

SpecEdit == InitStore /\ [][NextEdit]_vars

\* ---------------------------------------------- specification: SpecReentry
\* handleRunGraph called again (Run button or Ctrl/Cmd+R, part_000 lines
\* 189-204) while an invocation is suspended at its axios call.  The variables
\* pc .. inputData hold the invocation whose code runs next; the others wait
\* in parked, each at its axios call.
CurrentRun ==
    [pc |-> pc, runGraph |-> runGraph, executionOrder |-> executionOrder, idx |-> idx,
     context |-> context, updates |-> updates, runError |-> runError,
     response |-> response, transformResult |-> transformResult, inputData |-> inputData]

\* handleRunGraph while the invocation above is suspended: line 156 reads the
\* store's isRunning and, when it is false, the handler goes on as ever
HandleRunGraphWhileSuspended ==
    /\ pc = "exec"
    /\ CurrentNode.type = "api"
    /\ ~isRunning
    /\ Len(parked) < MaxRuns - 1
    /\ parked' = Append(parked, CurrentRun)
    /\ storeNodes' = resetProjectNodes(storeNodes)
    /\ runGraph' = graph
    /\ context' = EmptyContext
    /\ updates' = <<>>
    /\ response' = NoResponse
    /\ transformResult' = NoResult
    /\ inputData' = NoInput
    /\ LET pre == ExecuteGraphPrelude(graph)
       IN  IF pre.threw THEN RunGraphRejected(pre) ELSE RunGraphStarted(pre)
    /\ UNCHANGED <<graph, cancelRequested, cyclesResult, sortResult, interpVars, evalVars,
                   requestVars, uuidCount>>

\* the axios call of a parked invocation settles while the invocation above is
\* suspended or over: the parked one is the one whose code runs next
ResumeParked(i) ==
    /\ EventLoopIdle
    /\ i \in DOMAIN parked
    /\ parked' = IF pc = "exec"
                 THEN [parked EXCEPT ![i] = CurrentRun]
                 ELSE [j \in 1..(Len(parked) - 1) |->
                          IF j < i THEN parked[j] ELSE parked[j + 1]]
    /\ pc' = parked[i].pc
    /\ runGraph' = parked[i].runGraph
    /\ executionOrder' = parked[i].executionOrder
    /\ idx' = parked[i].idx
    /\ context' = parked[i].context
    /\ updates' = parked[i].updates
    /\ runError' = parked[i].runError
    /\ response' = parked[i].response
    /\ transformResult' = parked[i].transformResult
    /\ inputData' = parked[i].inputData
    /\ UNCHANGED <<graph, cancelRequested, cyclesResult, sortResult, interpVars, evalVars,
                   requestVars, uuidCount, storeVars>>

NextReentry ==
    \/ Next
    \/ HandleRunGraphWhileSuspended
    \/ \E i \in DOMAIN parked : ResumeParked(i)

\* project graphs small enough for two invocations to be followed through
InitReentry ==
    /\ \E n \in 0..MaxReentryNodes : \E k \in 0..MaxReentryEdges :
          \E types \in [1..n -> NodeTypes \cup {UnknownType}], edges \in EdgesBetween(n, k) :
              graph = GraphOf(n, types, edges)
    /\ cyclesResult = NotCalled
    /\ sortResult = NotCalled
    /\ NoInterpolation
    /\ NoEvaluation
    /\ StoreInit
    /\ RunInit
    /\ NoRequest
    /\ NoSession

SpecReentry == InitReentry /\ [][NextReentry]_vars

\* a step of executeGraph after handleRunGraph has called it
RunStep ==
    \/ BeginNode
    \/ ApiNodeResponds
    \/ ApiNodeFails
    \/ TransformNodeEvaluates
    \/ TransformNodeThrows
    \/ OutputNodeReturns
    \/ UnknownNodeType
    \/ FinishRun

\* ------------------------------------------------- graph-theoretic notions
\* (used only to state the properties; independent of the two algorithms)
Successors(g, S) == {g.edges[i].target : i \in {j \in DOMAIN g.edges : g.edges[j].source \in S}}

RECURSIVE ReachFrom(_, _)
ReachFrom(g, S) ==
    LET next == S \cup Successors(g, S)
    IN  IF next = S THEN S ELSE ReachFrom(g, next)

\* n lies on a directed cycle: n is reachable from one of its own successors
OnCycle(g, n) == n \in ReachFrom(g, Successors(g, {n}))

HasCycle(g) == \E n \in NodeIds(g) : OnCycle(g, n)

\* position of id in a returned order (0 when absent)
Position(order, id) ==
    IF \E i \in DOMAIN order : order[i] = id
    THEN CHOOSE i \in DOMAIN order : order[i] = id
    ELSE 0

\* --------------------------------------------------------------- claims
\* C1: for every acyclic graph (unique ids, edges between existing nodes,
\* parallel duplicate edges allowed) and every edge s->t, s appears strictly
\* before t in the sequence returned by topologicalSort.
C1_SourceBeforeTarget ==
    (sortResult.called /\ ~HasCycle(graph)) =>
        \A i \in DOMAIN graph.edges :
            /\ Position(sortResult.value, graph.edges[i].source) > 0
            /\ Position(sortResult.value, graph.edges[i].source)
                 < Position(sortResult.value, graph.edges[i].target)

\* a three-node acyclic graph with a duplicated edge and a second distinct edge was sorted
C1_Witness ==
    /\ sortResult.called /\ ~HasCycle(graph)
    /\ Len(graph.nodes) = 3
    /\ \E i, j \in DOMAIN graph.edges : i # j /\ graph.edges[i] = graph.edges[j]
    /\ \E i, j \in DOMAIN graph.edges : graph.edges[i] # graph.edges[j]

\* C2: for every acyclic graph with unique node ids, the sequence returned by
\* topologicalSort contains every node id exactly once and no other id.
C2_EveryNodeExactlyOnce ==
    (sortResult.called /\ ~HasCycle(graph)) =>
        /\ ~sortResult.threw
        /\ Range(sortResult.value) = NodeIds(graph)
        /\ Len(sortResult.value) = Cardinality(NodeIds(graph))

\* a three-node acyclic graph in which one node has two distinct predecessors was sorted
C2_Witness ==
    /\ sortResult.called /\ ~HasCycle(graph)
    /\ Len(graph.nodes) = 3
    /\ \E i, j \in DOMAIN graph.edges :
          /\ graph.edges[i].target = graph.edges[j].target
          /\ graph.edges[i].source # graph.edges[j].source

\* C3: for every graph with a directed cycle (a self-loop included),
\* topologicalSort fails with 'Graph contains cycles' and returns no order.
C3_CyclicGraphRejected ==
    (sortResult.called /\ HasCycle(graph)) =>
        /\ sortResult.threw
        /\ sortResult.message = CyclesMessage
        /\ sortResult.value = <<>>

\* topologicalSort was called on a graph whose only cycle is a self-loop and
\* that also has a node outside the cycle
C3_Witness ==
    /\ sortResult.called
    /\ \E i \in DOMAIN graph.edges : graph.edges[i].source = graph.edges[i].target
    /\ \A i \in DOMAIN graph.edges :
          graph.edges[i].source # graph.edges[i].target =>
              ~OnCycle(graph, graph.edges[i].target)
    /\ \E n \in NodeIds(graph) : ~OnCycle(graph, n)

\* a set of nodes each of which has an edge to a member of the set contains
\* all nodes of some directed cycle, and the node set of a cycle is such a set
CoversACycle(g, S) ==
    \E C \in SUBSET S :
        /\ C # {}
        /\ \A c \in C : Successors(g, {c}) \cap C # {}

\* C4: for every graph with a directed cycle, detectCycles returns a non-empty
\* sequence that includes every node of at least one directed cycle.
C4_CycleReported ==
    (cyclesResult.called /\ HasCycle(graph)) =>
        /\ cyclesResult.value # <<>>
        /\ CoversACycle(graph, Range(cyclesResult.value))

\* detectCycles ran on a graph whose cycle goes through three nodes
C4_Witness ==
    /\ cyclesResult.called
    /\ Len(graph.edges) = 3
    /\ \A n \in 1..3 : n \in NodeIds(graph) /\ OnCycle(graph, n)
    /\ \A i \in DOMAIN graph.edges : graph.edges[i].source # graph.edges[i].target
    /\ Range(cyclesResult.value) = {1, 2, 3}

\* C5: every node id returned by detectCycles lies on a directed cycle of the graph.
C5_OnlyCycleNodesReported ==
    cyclesResult.called =>
        \A n \in Range(cyclesResult.value) : OnCycle(graph, n)

\* C6: for every acyclic graph, detectCycles returns the empty sequence.
C6_AcyclicGivesEmpty ==
    (cyclesResult.called /\ ~HasCycle(graph)) => cyclesResult.value = <<>>

\* detectCycles ran on an acyclic graph in which a node is reached a second
\* time, from a later root, after its first visit was completed
C6_Witness ==
    /\ cyclesResult.called /\ ~HasCycle(graph)
    /\ Len(graph.nodes) = 3 /\ Len(graph.edges) >= 2
    /\ \E i, j \in DOMAIN graph.edges :
          /\ graph.edges[i].target = graph.edges[j].target
          /\ graph.edges[i].source # graph.edges[j].source

\* ------------------------------------------------------- claims on the run
\* status of a node in the run's context ("idle" while it has no entry)
ContextStatus(n) ==
    IF ObjHas(context.nodeStatuses, n) THEN ObjGet(context.nodeStatuses, n) ELSE "idle"

Terminal == {"success", "error"}

\* the onNodeUpdate calls made for node n, in call order
UpdatesOf(n) == SelectSeq(updates, LAMBDA u : u.nodeId = n)

RunInFlight == pc \in {"loop", "exec"}

\* C7: when executeGraph is started on a graph with a cycle, the run fails as a
\* whole before any node executes: no executor is invoked, onNodeUpdate is
\* never called, no node leaves idle, and the failure names the node ids of a cycle.
C7_CyclicRunAborts ==
    (pc # "idle" /\ HasCycle(runGraph)) =>
        /\ pc = "failed"
        /\ runError.thrown
        /\ runError.cycles = detectCycles(runGraph)
        /\ CoversACycle(runGraph, Range(runError.cycles))
        /\ \E i \in DOMAIN executionLogs :
              /\ executionLogs[i].level = "error"
              /\ executionLogs[i].cycles = runError.cycles
        /\ updates = <<>>
        /\ context = EmptyContext
        /\ \A n \in DOMAIN storeNodes : storeNodes[n] = IdleNode

\* a three-node graph with a cycle and a node outside it was run and rejected
C7_Witness ==
    /\ pc = "failed"
    /\ Len(runGraph.nodes) = 3
    /\ HasCycle(runGraph)
    /\ \E n \in NodeIds(runGraph) : ~OnCycle(runGraph, n)

\* how far the loop of executeGraph has come
RunProgress == 2 * idx + (IF pc = "exec" THEN 1 ELSE 0)

\* C8: on an acyclic graph, whichever executors fail, a node failure never
\* aborts the run: executeGraph does not throw, every node of the order is
\* marked running and reaches success or error, a node that succeeded keeps
\* its status and output for the rest of the run, and the run goes on to its
\* end (a run in flight can always take a step, and every step takes the loop
\* forward or completes the run).
C8_FailureDoesNotAbort ==
    /\ []((pc # "idle" /\ ~HasCycle(runGraph)) =>
            /\ pc # "failed"
            /\ ~runError.thrown
            /\ \A i \in DOMAIN executionOrder :
                  (i < idx) =>
                      /\ ContextStatus(executionOrder[i]) \in Terminal
                      /\ \E k \in DOMAIN updates :
                            updates[k] = [nodeId |-> executionOrder[i], status |-> "running"]
            /\ (pc = "completed") =>
                  /\ Range(executionOrder) = NodeIds(runGraph)
                  /\ idx > Len(executionOrder)
            /\ RunInFlight =>
                  /\ idx <= Len(executionOrder) + 1
                  /\ ENABLED RunStep)
    /\ [][RunInFlight =>
            /\ \A n \in NodeIds(runGraph) :
                  ContextStatus(n) = "success" =>
                      /\ ContextStatus(n)' = "success"
                      /\ ObjGet(context.nodeOutputs, n)' = ObjGet(context.nodeOutputs, n)
                      /\ storeNodes'[n] = storeNodes[n]
            /\ \/ pc' = "completed"
               \/ RunInFlight' /\ RunProgress' > RunProgress]_vars

\* a chain 1 -> 2 -> 3 whose middle node failed after the first succeeded,
\* and whose last node was still run to a terminal status
C8_Witness ==
    /\ pc = "completed"
    /\ executionOrder = <<1, 2, 3>>
    /\ runGraph.edges = <<[source |-> 1, target |-> 2], [source |-> 2, target |-> 3]>>
    /\ ContextStatus(1) = "success"
    /\ ContextStatus(2) = "error"
    /\ ContextStatus(3) \in Terminal
    /\ Len(UpdatesOf(3)) = 2

\* C9: during a run at most one node is running, and whenever a node is
\* running every node before it in the execution order, hence every edge
\* predecessor, has reached success or error.
C9_SerialInOrder ==
    /\ Cardinality({n \in NodeIds(runGraph) : ContextStatus(n) = "running"}) <= 1
    /\ Cardinality({n \in DOMAIN storeNodes : storeNodes[n].status = "running"}) <= 1
    /\ \A i \in DOMAIN executionOrder :
          ContextStatus(executionOrder[i]) = "running" =>
              /\ \A j \in 1..(i - 1) : ContextStatus(executionOrder[j]) \in Terminal
              /\ \A e \in DOMAIN runGraph.edges :
                    runGraph.edges[e].target = executionOrder[i] =>
                        /\ ContextStatus(runGraph.edges[e].source) \in Terminal
                        /\ storeNodes[runGraph.edges[e].source].status \in Terminal

\* the third node of the order is running, it has an edge predecessor, and
\* the two nodes before it ended differently
C9_Witness ==
    /\ pc = "exec"
    /\ idx = 3
    /\ \E e \in DOMAIN runGraph.edges : runGraph.edges[e].target = executionOrder[3]
    /\ ContextStatus(executionOrder[1]) # ContextStatus(executionOrder[2])

\* C10: in one run onNodeUpdate is called for each node exactly twice, first
\* with 'running', then with one of 'success' and 'error', and never again;
\* the store's node status follows idle -> running -> (success | error).
C10_TwoUpdatesPerNode ==
    /\ \A k \in DOMAIN updates : updates[k].nodeId \in NodeIds(runGraph)
    /\ \A n \in NodeIds(runGraph) :
          LET calls == UpdatesOf(n)
          IN  /\ Len(calls) <= 2
              /\ Len(calls) >= 1 => calls[1].status = "running"
              /\ Len(calls) = 2 => calls[2].status \in Terminal
              /\ (pc = "completed") => Len(calls) = 2
              /\ storeNodes[n].status =
                    IF Len(calls) = 0 THEN "idle" ELSE calls[Len(calls)].status

\* a completed run of three nodes in which both terminal statuses occur
C10_Witness ==
    /\ pc = "completed"
    /\ Len(updates) = 6
    /\ \E n, m \in NodeIds(runGraph) :
          /\ UpdatesOf(n)[2].status = "success"
          /\ UpdatesOf(m)[2].status = "error"

\* the output recorded in the run's context for node n
ContextOutput(n) == ObjGet(context.nodeOutputs, n)

\* runGraph is the chain a -> b -> c of an api, a transform and an output node
IsChain(a, b, c) ==
    /\ NodeIds(runGraph) = {a, b, c}
    /\ a # b /\ b # c /\ a # c
    /\ FindNode(runGraph, a).type = "api"
    /\ FindNode(runGraph, b).type = "transform"
    /\ FindNode(runGraph, c).type = "output"
    /\ Range(runGraph.edges) = {[source |-> a, target |-> b], [source |-> b, target |-> c]}

\* C11: in a chain a -> b -> c (api, transform, output) in which all three
\* nodes succeed, the output of the sink c equals the output of its upstream
\* node b.
C11_SinkEqualsUpstream ==
    \A a, b, c \in NodeIds(runGraph) :
        (/\ pc = "completed"
         /\ IsChain(a, b, c)
         /\ \A n \in {a, b, c} : ContextStatus(n) = "success")
        => ContextOutput(c) = ContextOutput(b)

\* the for-loop has just left the node at position idx - 1
NodeJustFinished == pc \in {"loop", "completed"} /\ idx > 1
LastNode == executionOrder[idx - 1]

\* C12: whenever the expression of a transform node evaluates without throwing
\* to a value v (undefined included), the node ends with status success and
\* output v; the log entries around the evaluation do not change the outcome.
C12_TransformReturnsValue ==
    (/\ NodeJustFinished
     /\ FindNode(runGraph, LastNode).type = "transform"
     /\ transformResult.returned)
    => /\ ContextStatus(LastNode) = "success"
       /\ ContextOutput(LastNode) = transformResult.value
       /\ storeNodes[LastNode].status = "success"
       /\ storeNodes[LastNode].output = transformResult.value

\* C13: an api node reaches success for every HTTP response whatever its
\* status code, with the response status in its output, and reaches error only
\* when the request got no response.
C13_ErrorOnlyWithoutResponse ==
    (NodeJustFinished /\ FindNode(runGraph, LastNode).type = "api")
    => /\ response.received =>
            /\ ContextStatus(LastNode) = "success"
            /\ ContextOutput(LastNode).status = response.status
            /\ storeNodes[LastNode].status = "success"
            /\ storeNodes[LastNode].output.status = response.status
       /\ ContextStatus(LastNode) = "error" =>
            /\ ~response.received
            /\ ObjGet(context.nodeErrors, LastNode) = NetworkErrorMessage
            /\ storeNodes[LastNode].status = "error"

\* an api node has succeeded on a response with an error status
C13_Witness ==
    /\ NodeJustFinished
    /\ FindNode(runGraph, LastNode).type = "api"
    /\ response.received
    /\ response.status >= 400
    /\ ContextStatus(LastNode) = "success"

\* ------------------------------------------------- claims on interpolation
\* the inner parts (between the braces) of the tokens of template t from
\* position i on, in order
RECURSIVE TokenPaths(_, _)
TokenPaths(t, i) ==
    IF i > Len(t) THEN <<>>
    ELSE LET e == MatchAt(t, i)
         IN  IF e = 0 THEN TokenPaths(t, i + 1)
             ELSE <<SubSeq(t, i + 2, e - 2)>> \o TokenPaths(t, e + 1)

\* the keys a path names
PathSegments(path) == Split(Trim(path))

\* the value the root key of a path addresses: node<i> the output at index i,
\* data the first output
RootAddresses(key, outputs) ==
    \/ key = "data" /\ Len(outputs) > 0
    \/ \E i \in DOMAIN outputs : key = "node" \o ToString(i - 1)

RootValue(key, outputs) ==
    IF key = "data" THEN outputs[1].value
    ELSE outputs[CHOOSE i \in DOMAIN outputs : key = "node" \o ToString(i - 1)].value

\* following the keys from position i on through the data of the outputs
RECURSIVE KeysResolve(_, _, _)
KeysResolve(segments, i, current) ==
    IF i > Len(segments) THEN TRUE
    ELSE /\ current.t = "object"
         /\ ObjHas(current.props, KeyOf(segments[i]))
         /\ KeysResolve(segments, i + 1, ObjGet(current.props, KeyOf(segments[i])))

\* the path resolves: its root key addresses an output and every further key
\* is a key of the data reached
PathResolves(path, outputs) ==
    LET segments == PathSegments(path)
    IN  /\ RootAddresses(KeyOf(segments[1]), outputs)
        /\ KeysResolve(segments, 2, RootValue(KeyOf(segments[1]), outputs))

\* C14: interpolateVariables is fail-soft: no error is raised, and a template
\* in which no token's path resolves (unknown root key, missing intermediate
\* key, empty outputs map) comes back exactly as written.
C14_UnresolvedLeftVerbatim ==
    interpolated.called =>
        /\ ~interpolated.threw
        /\ LET paths == TokenPaths(template, 1)
           IN  (\A k \in DOMAIN paths : ~PathResolves(paths[k], nodeOutputs))
               => interpolated.value = template

\* the inner part of a token with its root key data replaced by node0
RootIsData(path) == KeyOf(PathSegments(path)[1]) = "data"

RebasePath(path) ==
    IF RootIsData(path)
    THEN [path EXCEPT ![Len(path) - Len(TrimStart(path)) + 1] = "node0"]
    ELSE path

\* template t from position i on with every root key data replaced by node0
RECURSIVE Rebase(_, _)
Rebase(t, i) ==
    IF i > Len(t) THEN <<>>
    ELSE LET e == MatchAt(t, i)
         IN  IF e = 0 THEN <<t[i]>> \o Rebase(t, i + 1)
             ELSE <<"{", "{">> \o RebasePath(SubSeq(t, i + 2, e - 2)) \o <<"}", "}">>
                     \o Rebase(t, e + 1)

\* C15: whenever the outputs map is non-empty, the root name data addresses
\* the first output, whatever its value (0, the empty string, false and null
\* included): a template whose data tokens resolve yields what the same
\* template yields with node0 in place of data.
C15_DataIsFirstOutput ==
    LET paths == TokenPaths(template, 1)
    IN  (/\ interpolated.called
         /\ Len(nodeOutputs) > 0
         /\ \A k \in DOMAIN paths :
               RootIsData(paths[k]) => PathResolves(paths[k], nodeOutputs))
        => interpolated.value = interpolateVariables(Rebase(template, 1), nodeOutputs)

\* C16: a run can be aborted between node executions: once cancellation has
\* been requested while a node is executing, that node still reaches its
\* terminal status, and no further node is marked running.
C16_NoNodeStartsAfterCancel ==
    [][cancelRequested =>
          /\ (pc = "exec" /\ pc' # "exec") => ContextStatus(CurrentId)' \in Terminal
          /\ Len(updates') > Len(updates) =>
                updates'[Len(updates')].status # "running"]_vars

\* ----------------------------------------------------- claims on safeEval
\* the expression names an identifier outside the permitted set
ReferencesOutside(e) == e.kind \in {"ident", "member"} /\ e.name \notin ContextKeys

\* the evaluation error of safeEval, wrapping the message of its cause
IsEvaluationError(outcome, cause) ==
    /\ outcome.threw
    /\ outcome.name = "Error"
    /\ outcome.message = "Expression evaluation failed: " \o cause

\* C17: evaluating an expression that references an identifier outside the
\* permitted set (data, _, Math, JSON, Array, Object, String, Number, Boolean,
\* Date, RegExp), such as a global of the host, fails with an evaluation error
\* instead of yielding a value.
C17_OutsideIdentifierFails ==
    (evaluated.called /\ ReferencesOutside(expression))
    => /\ evaluated.threw
       /\ evaluated.name = "Error"

\* C18: safeEval reports both kinds of failure the same way: an expression
\* that does not parse and an expression that throws while it is evaluated
\* each produce the error 'Expression evaluation failed: <cause>'.
C18_BothFailuresWrapped ==
    evaluated.called =>
        /\ expression.kind = "unparsable"
              => IsEvaluationError(evaluated, "Unexpected token")
        /\ (expression.kind # "unparsable" /\ CallSafeFunction(expression, data).threw)
              => IsEvaluationError(evaluated, CallSafeFunction(expression, data).message)

\* --------------------------------------------- further claims on the run
\* C19: a node's failure (evaluation failure, transport failure, unknown node
\* type) is recorded against that node only: in the context executeGraph
\* returns every node is success or error, nodeOutputs has a key exactly for
\* the success nodes, nodeErrors has a message exactly for the error nodes,
\* and no node is in both.
C19_ContextPartitionsNodes ==
    /\ ObjKeys(context.nodeOutputs) \cup ObjKeys(context.nodeErrors)
          \subseteq NodeIds(runGraph)
    /\ \A n \in NodeIds(runGraph) :
          /\ ObjHas(context.nodeOutputs, n) <=> ContextStatus(n) = "success"
          /\ ObjHas(context.nodeErrors, n) <=> ContextStatus(n) = "error"
          /\ ~(ObjHas(context.nodeOutputs, n) /\ ObjHas(context.nodeErrors, n))
          /\ pc = "completed" => ContextStatus(n) \in Terminal
    /\ (pc = "exec" /\ ContextStatus(CurrentId) = "running") =>
          ~ObjHas(context.nodeOutputs, CurrentId) /\ ~ObjHas(context.nodeErrors, CurrentId)

\* a returned context with a success node, a node whose request failed and a
\* node of unknown type
C19_Witness ==
    /\ pc = "completed"
    /\ \E a, b, c \in NodeIds(runGraph) :
          /\ ContextStatus(a) = "success"
          /\ ContextStatus(b) = "error"
          /\ ObjGet(context.nodeErrors, b) = NetworkErrorMessage
          /\ ContextStatus(c) = "error"
          /\ ObjGet(context.nodeErrors, c) = UnknownTypeMessage

\* C20: from the moment handleRunGraph starts a run until executeGraph
\* settles, the store's isRunning flag is true.
C20_LockedWhileRunning == RunInFlight => isRunning

\* C21: at the start of each run started by handleRunGraph, before the first
\* node is marked running, every node of the project is idle with no output
\* and no error left from a previous run, while the node ids, types and edges
\* are unchanged by the reset.
C21_RunStartsFromIdle ==
    /\ []((pc = "loop" /\ idx = 1 /\ updates = <<>>)
            => \A n \in DOMAIN storeNodes : storeNodes[n] = IdleNode)
    /\ [][(pc \in {"idle", "completed", "failed"}) =>
            ((\A n \in DOMAIN storeNodes' : storeNodes'[n] = IdleNode)
                /\ DOMAIN storeNodes' = DOMAIN storeNodes
                /\ graph' = graph
                /\ runGraph' = graph)]_vars

\* a completed run has left an output and an error in the store, and Run can
\* be started again
C21_Witness ==
    /\ pc = "completed"
    /\ \E n, m \in DOMAIN storeNodes :
          /\ storeNodes[n].status = "success" /\ storeNodes[n].output # Undefined
          /\ storeNodes[m].status = "error" /\ storeNodes[m].error # NoError
    /\ ENABLED HandleRunGraph

\* C22: for every graph whose edges reference existing nodes, topologicalSort
\* fails exactly when detectCycles returns a non-empty sequence; hence inside
\* executeGraph topologicalSort never fails once the cycle check has passed.
C22_SortFailsIffCyclesFound ==
    (cyclesResult.called /\ sortResult.called)
    => /\ sortResult.threw <=> Len(cyclesResult.value) > 0
       /\ ExecuteGraphPrelude(graph).threw <=> Len(cyclesResult.value) > 0
       /\ ExecuteGraphPrelude(graph).threw =>
             ExecuteGraphPrelude(graph).cycles = cyclesResult.value

\* both functions have refused a graph in which a cycle is entered from a
\* node outside it
C22_Witness ==
    /\ cyclesResult.called /\ sortResult.called
    /\ sortResult.threw
    /\ Len(cyclesResult.value) > 0
    /\ \E n \in NodeIds(graph) : ~OnCycle(graph, n)

\* the nodes at positions below i of the execution order that have succeeded,
\* in execution order
SucceededBefore(i) ==
    SelectSeq(SubSeq(executionOrder, 1, i - 1),
              LAMBDA n : ContextStatus(n) = "success")

SummaryLogs == {i \in DOMAIN executionLogs :
                    executionLogs[i].message = "Graph execution completed"}

\* C24: after all nodes of an acyclic graph are processed executeGraph emits
\* exactly one summary log, after the last node's terminal update, whose
\* counts satisfy successful + failed = total = number of nodes of the graph.
C24_OneSummaryLog ==
    /\ pc # "completed" => SummaryLogs = {}
    /\ pc = "completed" =>
          /\ SummaryLogs = {Len(executionLogs)}
          /\ \A n \in NodeIds(runGraph) :
                Len(UpdatesOf(n)) = 2 /\ UpdatesOf(n)[2].status \in Terminal
          /\ LET summary == executionLogs[Len(executionLogs)]
             IN  /\ summary.total = Len(runGraph.nodes)
                 /\ summary.successful + summary.failed = summary.total
                 /\ summary.successful =
                       Cardinality({n \in NodeIds(runGraph) : storeNodes[n].status = "success"})
                 /\ summary.failed =
                       Cardinality({n \in NodeIds(runGraph) : storeNodes[n].status = "error"})

\* the summary of a run of three nodes with two successes and one failure
C24_Witness ==
    /\ pc = "completed"
    /\ executionLogs[Len(executionLogs)].successful = 2
    /\ executionLogs[Len(executionLogs)].failed = 1
    /\ executionLogs[Len(executionLogs)].total = 3

\* what the returned context holds for node n
ContextOutputOrUndefined(n) ==
    IF ObjHas(context.nodeOutputs, n) THEN ObjGet(context.nodeOutputs, n) ELSE Undefined

ContextErrorOrUndefined(n) ==
    IF ObjHas(context.nodeErrors, n) THEN ObjGet(context.nodeErrors, n) ELSE NoError

Succeeded == SelectSeq(executionOrder, LAMBDA n : ContextStatus(n) = "success")

\* the path of the token {{node<k>}}
NodeToken(k) == <<"node" \o ToString(k)>>

\* C30: the token root node<k> addresses the k-th entry (zero-based) of the
\* context's outputs, which is the output of the (k+1)-th node of the execution
\* order that has succeeded; a failed node occupies no index.
C30_NodeIndexCountsSuccesses ==
    \A k \in 0..MaxRunNodes :
        getNestedValue(AllData(context.nodeOutputs), NodeToken(k)) =
            IF k < Len(Succeeded) THEN ContextOutput(Succeeded[k + 1]) ELSE Undefined

\* the first node of the order failed and node0 addresses the second node's
\* output, node1 the third's, which differs
C30_Witness ==
    /\ Len(executionOrder) = 3
    /\ ContextStatus(executionOrder[1]) = "error"
    /\ ContextStatus(executionOrder[2]) = "success"
    /\ ContextStatus(executionOrder[3]) = "success"
    /\ getNestedValue(AllData(context.nodeOutputs), NodeToken(0))
          = ContextOutput(executionOrder[2])
    /\ getNestedValue(AllData(context.nodeOutputs), NodeToken(1))
          = ContextOutput(executionOrder[3])
    /\ ContextOutput(executionOrder[2]) # ContextOutput(executionOrder[3])
    /\ getNestedValue(AllData(context.nodeOutputs), NodeToken(2)) = Undefined

\* hosts that name the machine the application runs on
LocalHosts == {"localhost", "127.0.0.1"}

\* the url is scheme host, followed by nothing, a port or a path, and the
\* host is a local one
IsLocalAddress(url) ==
    /\ Len(url) >= 2
    /\ <<url[1]>> \in UrlSchemes
    /\ url[2] \in LocalHosts
    /\ Len(url) >= 3 => url[3] \in {":3000", "/x"}

\* C25: the url a source node requests is the proxy prefix followed by the
\* interpolated url exactly when useCorsProxy is set and the interpolated url
\* is not a local address; in every other case it is the interpolated url.
C25_ProxiedIffNotLocal ==
    finalUrl.called =>
        finalUrl.value =
            IF useCorsProxy /\ ~IsLocalAddress(interpolated.value)
            THEN CorsProxyPrefix \o interpolated.value
            ELSE interpolated.value

\* C26: after any sequence of the store operations addNode, addEdge,
\* removeNode and removeEdge, every edge's source and target are ids of nodes
\* currently in the graph.
C26_EdgesReferenceNodes ==
    \A i \in DOMAIN graph.edges :
        /\ graph.edges[i].source \in NodeIds(graph)
        /\ graph.edges[i].target \in NodeIds(graph)

\* C29: run progress never changes the graph's structure: a step of a run
\* (a node-update callback, a log, the loop moving on), interleaved with user
\* edits, adds or removes no node and changes no edge, so a node the user
\* removed while the run was in flight stays removed when its status update
\* arrives.
C29_RunKeepsStructure ==
    /\ [](DOMAIN storeNodes = NodeIds(graph))
    /\ [][(updates' # updates \/ idx' # idx \/ pc' # pc) =>
            (graph' = graph /\ DOMAIN storeNodes' = DOMAIN storeNodes)]_vars

\* the terminal update of a node has arrived after the user removed the node,
\* while another node of the run is still in the graph
C29_Witness ==
    /\ \E i \in DOMAIN updates :
          /\ updates[i].status \in Terminal
          /\ updates[i].nodeId \in NodeIds(runGraph)
          /\ updates[i].nodeId \notin NodeIds(graph)
          /\ updates[i].nodeId \notin DOMAIN storeNodes
    /\ NodeIds(graph) \cap NodeIds(runGraph) # {}

\* invocations of handleRunGraph whose executeGraph has not settled
RunsInFlight ==
    (IF RunInFlight THEN 1 ELSE 0)
        + Cardinality({i \in DOMAIN parked : parked[i].pc \in {"loop", "exec"}})

\* C27: at most one executeGraph run started through handleRunGraph is in
\* flight at any time; calling handleRunGraph while a run has not settled
\* starts no second run and puts no node back to idle.
C27_SingleRunInFlight ==
    /\ [](RunsInFlight <= 1)
    /\ [][RunInFlight =>
            \A n \in DOMAIN storeNodes :
                storeNodes[n].status # "idle" => storeNodes'[n].status # "idle"]_vars

====
